---- MODULE Spec2Model ----
(***************************************************************************)
(* Model of MathQuest's live tournament core: the per-tournament timer     *)
(* controller (triggerTournamentQuestion / triggerTournamentPause /        *)
(* triggerTournamentTimerSet), answer admission and immediate scoring      *)
(* (handleTournamentAnswer) and finalisation (forceTournamentEnd), run on  *)
(* one Node.js event loop.                                                 *)
(*                                                                         *)
(* Units: every quantity the source keeps in seconds (timeLeft,            *)
(* currentQuestionDuration, pausedRemainingTime, question.temps) is kept   *)
(* here in milliseconds, i.e. multiplied by 1000, so that the source's     *)
(* fractional seconds stay integers.  Date.now() values are milliseconds   *)
(* in both.                                                                *)
(***************************************************************************)
EXTENDS Integers, Sequences, FiniteSets, TLC

VARIABLES
    now,              \* Date.now(): the server clock, in ms
    registered,       \* TRUE iff tournamentState[code] exists (delete removes it)
    state,            \* the session object tournamentState[code]; timer closures keep it alive
    timers,           \* Node's timer queue: the armed setInterval / setTimeout entries
    expirations,      \* handleTimerExpiration invocations since the countdown was armed
    fe,               \* the forceTournamentEnd invocations (async continuations)
    db,               \* durable store: what prisma has been asked to persist
    sent,             \* finalisation broadcasts to live_<code>, counted over the whole run
    op,               \* the event whose handler ran last (name and arguments)
    out               \* what that handler emitted, in order

vars == <<now, registered, state, timers, expirations, fe, db, sent, op, out>>

-----------------------------------------------------------------------------
(* JavaScript values *)

\* JS null in a numeric or handle slot.
Null == -999999
\* JS NaN (survives arithmetic, toFixed and parseFloat).
NaN == -888888

IsNum(x) == x # Null /\ x # NaN
\* JS truthiness of a number-or-null: 0, NaN, null and undefined are falsy.
Truthy(x) == IsNum(x) /\ x # 0
\* ToNumber: null is 0 in arithmetic.
ToNumber(x) == IF x = Null THEN 0 ELSE x
\* JS relational operators on numbers: any comparison with NaN is false.
\* (In the modelled code null reaches a comparison only behind a !== null guard.)
Gt(a, b) == IsNum(a) /\ IsNum(b) /\ a > b
Le(a, b) == IsNum(a) /\ IsNum(b) /\ a <= b
\* a - b: NaN operands give NaN.
Minus(a, b) == IF a = NaN \/ b = NaN THEN NaN ELSE ToNumber(a) - ToNumber(b)
\* Math.max(0, x): NaN if x is NaN.
Max0(x) == IF IsNum(x) THEN (IF x > 0 THEN x ELSE 0) ELSE NaN
Min2(a, b) == IF a <= b THEN a ELSE b

-----------------------------------------------------------------------------
(* Program constants *)

\* Grace period added to the server-side lateness test, ms.
GracePeriod == 500
\* Default question time: 20 s.
DefaultTime == 20000
\* setInterval period of the tick timer, ms.
TickPeriod == 1000

-----------------------------------------------------------------------------
(* Bounds of the model *)

\* The clock starts at T0 and advances in whole steps of StepMs, MaxSteps times at most.
MaxSteps == 3
\* forceTournamentEnd invocations that may be in flight or have run.
MaxForceEnd == 2

T0 == 1000 * 1000
StepMs == TickPeriod \div 2
MaxNow == T0 + MaxSteps * StepMs


-----------------------------------------------------------------------------
(* The session's fixed data *)

\* JS null / undefined in a string slot (a uid, a quiz id).
NullStr == "null"

\* state.questions: uid, temps (intrinsic time, ms, or Null) and the index of
\* the correct answer.  q2 has no temps, so the 20 s default applies to it.
Questions ==
    << [uid |-> "q1", temps |-> 1000, correct |-> 0],
       [uid |-> "q2", temps |-> Null, correct |-> 1] >>

\* state.questions.findIndex(q => q.uid === uid), 0-based; -1 when absent.
FindIndex(uid) ==
    IF \E i \in DOMAIN Questions : Questions[i].uid = uid
    THEN (CHOOSE i \in DOMAIN Questions :
            /\ Questions[i].uid = uid
            /\ \A j \in DOMAIN Questions : Questions[j].uid = uid => i <= j) - 1
    ELSE -1

\* state.questions[i] for a 0-based i that is a valid position.
HasQuestionAt(i) == (i + 1) \in DOMAIN Questions
QuestionAt(i) == Questions[i + 1]

\* question.temps || 20
TempsOrDefault(q) == IF Truthy(q.temps) THEN q.temps ELSE DefaultTime

\* Players (joueur ids) and the connections mapped to them by socketToJoueur.
\* "socket_2" is a participant without a durable identity.
Joueurs == {"j1", "socket_2"}
SocketToJoueur(sock) ==
    CASE sock = "s1" -> "j1"
      [] sock = "s2" -> "socket_2"
      [] OTHER -> NullStr

\* participant.id.startsWith('socket_')
StartsWithSocket(id) == id = "socket_2"

\* quizState[linkedQuizId].askedQuestions of the paired dashboard.
QuizAskedQuestions == {"q1", "q2"}

-----------------------------------------------------------------------------
(* JS objects used as maps *)

EmptyMap == << >>
Put(f, k, v) == [x \in (DOMAIN f) \cup {k} |-> IF x = k THEN v ELSE f[x]]
Has(f, k) == k \in DOMAIN f

RECURSIVE SumOver(_, _)
SumOver(f, keys) ==
    IF keys = {} THEN 0
    ELSE LET k == CHOOSE x \in keys : TRUE
         IN f[k] + SumOver(f, keys \ {k})

\* Object.values(m).reduce((sum, score) => sum + score, 0)
SumValues(m) == SumOver(m, DOMAIN m)

-----------------------------------------------------------------------------
(* Initial state: a session as created when a tournament is started *)

InitParticipant(j) ==
    [id |-> j, isDiffered |-> FALSE, score |-> 0, scoredQuestions |-> EmptyMap]

InitSession(differed) ==
    [ isDiffered             |-> differed,
      linkedQuizId           |-> NullStr,
      currentQuestionUid     |-> NullStr,
      previousQuestionUid    |-> NullStr,
      currentQuestionDuration|-> Null,
      questionStart          |-> Null,
      paused                 |-> FALSE,
      stopped                |-> FALSE,
      pausedRemainingTime    |-> Null,
      pausedAt               |-> Null,
      timer                  |-> Null,
      intervalTimer          |-> Null,
      timerRef               |-> Null,
      isTournamentMode       |-> FALSE,
      askedQuestions         |-> {"q1"},
      answers                |-> EmptyMap,
      participants           |-> [j \in Joueurs |-> InitParticipant(j)] ]

IdleInvocation == [pc |-> "idle", scaled |-> << >>, k |-> 0]

InitDb == [leaderboardWrites |-> 0, leaderboard |-> << >>,
           scoreWrites |-> [j \in Joueurs |-> 0],
           scores |-> [j \in Joueurs |-> Null]]

Init ==
    /\ now = T0
    /\ registered = TRUE
    /\ state \in {InitSession(d) : d \in BOOLEAN}
    /\ timers = {}
    /\ expirations = 0
    /\ fe = [i \in 1..MaxForceEnd |-> IdleInvocation]
    /\ db = InitDb
    /\ sent = [tournament_end |-> 0, redirect |-> 0]
    /\ op = [name |-> "init"]
    /\ out = << >>


-----------------------------------------------------------------------------
(* Events emitted by a handler *)

\* sendTournamentQuestion(io, room, question, index, total, time, state, linked)
QuestionEvent(q, index, time, linked) ==
    [ch |-> "live", ev |-> "tournament_question", uid |-> q.uid,
     index |-> index, timeLeft |-> time, questionState |-> "active",
     linked |-> linked]

\* io.to(`live_${code}`).emit("tournament_set_timer", {timeLeft, questionState})
SetTimerEvent(timeLeft, questionState) ==
    [ch |-> "live", ev |-> "tournament_set_timer", timeLeft |-> timeLeft,
     questionState |-> questionState]

\* updateQuestionTimer(quizId, questionUid, status, timeLeft) followed or
\* preceded by io.to(`dashboard_${quizId}`).emit("quiz_timer_update", ...)
QuizMirror(status, uid, timeLeft) ==
    << [ch |-> "quizState", ev |-> "updateQuestionTimer", status |-> status,
        uid |-> uid, timeLeft |-> timeLeft],
       [ch |-> "dashboard", ev |-> "quiz_timer_update", status |-> status,
        uid |-> uid, timeLeft |-> timeLeft] >>

\* socket.emit("tournament_answer_result", ...)
Receipt(sock, rejected, reason) ==
    [ch |-> "socket", ev |-> "tournament_answer_result", to |-> sock,
     rejected |-> rejected, reason |-> reason]

-----------------------------------------------------------------------------
(* triggerTournamentQuestion(io, code, index, linkedQuizId, initialTime,   *)
(*                           targetQuestionUid)                            *)

\* A resolution that lets the index decide whenever it names a question.
ResolveTargetIndexFirst(index, targetQuestionUid) ==
    IF index >= 0 /\ index < Len(Questions) THEN index
    ELSE IF targetQuestionUid # NullStr /\ FindIndex(targetQuestionUid) # -1
         THEN FindIndex(targetQuestionUid) ELSE -2

\* Lines 25-39: the target index, or -2 when the call returns before touching
\* the session (uid not found, or index >= questions.length).
ResolveTarget(index, targetQuestionUid) ==
    IF targetQuestionUid # NullStr
    THEN (IF FindIndex(targetQuestionUid) # -1 THEN FindIndex(targetQuestionUid) ELSE -2)
    ELSE (IF index >= Len(Questions) THEN -2 ELSE index)

\* Line 63: initialTime !== null ? initialTime : (question.temps || 20)
InitialDuration(initialTime, q) ==
    IF initialTime # Null THEN initialTime ELSE TempsOrDefault(q)

\* A question change that also takes the session out of a pause.
SetQuestionFieldsUnpausing(s, targetIndex, linkedQuizId, initialTime) ==
    [s EXCEPT !.linkedQuizId = linkedQuizId,
              !.currentQuestionUid =
                  IF HasQuestionAt(targetIndex)
                  THEN QuestionAt(targetIndex).uid ELSE NullStr,
              !.currentQuestionDuration =
                  IF HasQuestionAt(targetIndex)
                  THEN InitialDuration(initialTime, QuestionAt(targetIndex))
                  ELSE s.currentQuestionDuration,
              !.paused = FALSE,
              !.pausedRemainingTime = Null]

\* Lines 41-68 on the session object, for a target index that passed 25-39.
SetQuestionFields(s, targetIndex, linkedQuizId, initialTime) ==
    LET s1 == [s EXCEPT !.linkedQuizId = linkedQuizId,
                        !.currentQuestionUid =
                            IF HasQuestionAt(targetIndex)
                            THEN QuestionAt(targetIndex).uid ELSE NullStr]
    IN IF ~HasQuestionAt(targetIndex) THEN s1
       ELSE [s1 EXCEPT !.currentQuestionDuration =
                           InitialDuration(initialTime, QuestionAt(targetIndex))]

TriggerTournamentQuestion(index, linkedQuizId, initialTime, targetQuestionUid) ==
    LET targetIndex == ResolveTarget(index, targetQuestionUid)
    IN /\ op' = [name |-> "setQuestion", index |-> index, linkedQuizId |-> linkedQuizId,
                 initialTime |-> initialTime, targetQuestionUid |-> targetQuestionUid]
       /\ IF ~registered \/ targetIndex = -2
          THEN /\ state' = state
               /\ out' = << >>
          ELSE /\ state' = SetQuestionFields(state, targetIndex, linkedQuizId, initialTime)
               /\ out' = IF HasQuestionAt(targetIndex)
                         THEN << QuestionEvent(QuestionAt(targetIndex), targetIndex,
                                   InitialDuration(initialTime, QuestionAt(targetIndex)),
                                   linkedQuizId # NullStr) >>
                         ELSE << >>
       /\ UNCHANGED <<now, registered, timers, expirations, fe, db, sent>>

-----------------------------------------------------------------------------
(* Timer handles *)

\* A handle Node has not handed out among those still armed or still referenced.
FreshId(s, tq, avoid) ==
    LET used == {t.id : t \in tq} \cup {s.timer, s.intervalTimer, s.timerRef} \cup avoid
    IN CHOOSE n \in 1..(Cardinality(used) + 1) :
          n \notin used /\ \A m \in 1..(n - 1) : m \in used

\* A clearTimeout / clearInterval that has no effect on the queue.
CancelNothing(tq, h) == tq

\* clearTimeout(h) / clearInterval(h): the entry with that handle leaves the queue.
Cancel(tq, h) == {t \in tq : t.id # h}

\* A clearing of the queue that leaves the deadline timeout armed.
ClearTimerQueueKeepDeadline(s, tq) == Cancel(tq, s.intervalTimer)

\* A clearing of the queue that leaves the tick interval armed.
ClearTimerQueueKeepInterval(s, tq) == Cancel(Cancel(tq, s.timer), s.timerRef)

\* Lines 86-109 and 190-212: clear state.timer, state.intervalTimer and
\* state._timerRef, nulling each field that was set.
ClearTimerFields(s) ==
    [s EXCEPT !.timer = Null, !.intervalTimer = Null, !.timerRef = Null]
ClearTimerQueue(s, tq) ==
    Cancel(Cancel(Cancel(tq, s.timer), s.intervalTimer), s.timerRef)


-----------------------------------------------------------------------------
(* triggerTournamentPause(io, code, remainingTime) *)

\* parseFloat(x.toFixed(1)) on a non-negative number of seconds: the nearest
\* tenth of a second, i.e. the nearest multiple of 100 ms; NaN stays NaN.
ToFixed1(x) == IF IsNum(x) THEN ((x + 50) \div 100) * 100 ELSE NaN

\* A pause guard that does not look at isDiffered.
PauseIgnoredOnlyByFlags(s) == s.paused \/ s.stopped

\* Line 81: the pause is ignored.
PauseIgnored(s) == s.isDiffered \/ s.paused \/ s.stopped

\* A remaining time that is not floored at zero.
CalculatedRemainingTimeNoFloor(s, remainingTime, t) ==
    IF remainingTime # Null /\ Gt(remainingTime, 0)
    THEN remainingTime
    ELSE Minus(s.currentQuestionDuration, Minus(t, s.questionStart))

\* Lines 111-122: the provided remainingTime if it is valid, else
\* Math.max(0, currentQuestionDuration - elapsed).
CalculatedRemainingTime(s, remainingTime, t) ==
    IF remainingTime # Null /\ Gt(remainingTime, 0)
    THEN remainingTime
    ELSE Max0(Minus(s.currentQuestionDuration, Minus(t, s.questionStart)))

\* Lines 124-128.
PauseFields(s, remainingTime, t) ==
    [s EXCEPT !.pausedRemainingTime = ToFixed1(CalculatedRemainingTime(s, remainingTime, t)),
              !.pausedAt = t,
              !.paused = TRUE,
              !.stopped = FALSE]

\* Lines 135-155.
PauseEvents(s) ==
    << [ch |-> "live", ev |-> "tournament_question_state_update",
        questionState |-> "paused", timeLeft |-> s.pausedRemainingTime] >>
    \o (IF Le(s.pausedRemainingTime, 0) THEN << >>
        ELSE IF s.linkedQuizId # NullStr
             THEN QuizMirror("pause", s.currentQuestionUid, s.pausedRemainingTime)
             ELSE << >>)

TriggerTournamentPause(remainingTime) ==
    /\ op' = [name |-> "pause", remainingTime |-> remainingTime]
    /\ IF ~registered \/ PauseIgnored(state)
       THEN /\ UNCHANGED <<state, timers>>
            /\ out' = << >>
       ELSE LET s1 == PauseFields(ClearTimerFields(state), remainingTime, now)
            IN /\ state' = s1
               /\ timers' = ClearTimerQueue(state, timers)
               /\ out' = PauseEvents(s1)
    /\ UNCHANGED <<now, registered, expirations, fe, db, sent>>

-----------------------------------------------------------------------------
(* triggerTournamentTimerSet(io, code, timeLeft, forceActive) *)

\* No stop is ever taken for a duplicate.
DuplicateStopNever(s, timeLeft) == FALSE

\* Line 183: a stop on an already stopped session is skipped.
DuplicateStop(s, timeLeft) == timeLeft = 0 /\ s.stopped

\* A stop that leaves the paused flag as it was.
StopFieldsKeepPaused(s) ==
    [s EXCEPT !.stopped = TRUE,
              !.currentQuestionDuration = 0,
              !.pausedRemainingTime = Null,
              !.pausedAt = Null]

\* Lines 216-220.
StopFields(s) ==
    [s EXCEPT !.stopped = TRUE,
              !.paused = FALSE,
              !.currentQuestionDuration = 0,
              !.pausedRemainingTime = Null,
              !.pausedAt = Null]

\* Lines 223-239.
StopEvents(s) ==
    << SetTimerEvent(0, "stopped") >>
    \o (IF s.linkedQuizId # NullStr
        THEN << [ch |-> "dashboard", ev |-> "quiz_timer_update", status |-> "stop",
                 uid |-> s.currentQuestionUid, timeLeft |-> 0],
                [ch |-> "quizState", ev |-> "updateQuestionTimer", status |-> "stop",
                 uid |-> s.currentQuestionUid, timeLeft |-> 0] >>
        ELSE << >>)

\* Lines 246-255: the current question, or none.
HasCurrentQuestion(s) ==
    s.currentQuestionUid # NullStr /\ FindIndex(s.currentQuestionUid) # -1
CurrentQuestion(s) == QuestionAt(FindIndex(s.currentQuestionUid))

\* state.paused && state.pausedRemainingTime !== null && state.pausedRemainingTime > 0
CanResumeFromPause(s) ==
    s.paused /\ s.pausedRemainingTime # Null /\ Gt(s.pausedRemainingTime, 0)

\* Lines 257-288: the timeLeft to use before the resume override.
InitialTimeLeft(s, timeLeft, forceActive) ==
    LET q == CurrentQuestion(s)
        t1 == IF timeLeft = Null
              THEN (IF CanResumeFromPause(s) THEN s.pausedRemainingTime
                    ELSE TempsOrDefault(q))
              ELSE IF Le(timeLeft, 0) /\ forceActive
                   THEN TempsOrDefault(q)
                   ELSE timeLeft
    IN IF ~Truthy(t1) /\ Truthy(q.temps) THEN q.temps ELSE t1

\* Lines 292-299: resuming by force from a pause uses pausedRemainingTime.
ResumeTimeLeft(s, tl, forceActive) ==
    IF forceActive /\ CanResumeFromPause(s) THEN s.pausedRemainingTime ELSE tl

\* Lines 305-308.
ResumeFields(s, forceActive, t) ==
    IF forceActive /\ CanResumeFromPause(s)
    THEN [s EXCEPT !.paused = FALSE, !.questionStart = t, !.pausedAt = Null]
    ELSE s

\* An edit of a stopped timer that also leaves the stopped state.
EditStoppedFieldsResuming(s, tl) ==
    [s EXCEPT !.currentQuestionDuration = tl, !.stopped = FALSE]

\* Lines 312-313: editing a stopped timer.
EditStoppedFields(s, tl) == [s EXCEPT !.currentQuestionDuration = tl]

\* Lines 321-323: editing a paused timer.
EditPausedFields(s, tl) ==
    [s EXCEPT !.pausedRemainingTime = tl, !.currentQuestionDuration = tl]

\* Lines 325-340.
EditPausedEvents(s, tl) ==
    << SetTimerEvent(tl, "paused") >>
    \o (IF s.linkedQuizId # NullStr
        THEN QuizMirror("pause", s.currentQuestionUid, tl) ELSE << >>)

\* Lines 344 and 348-350: the fields written before the timeLeft <= 0 test.
PreStartFields(s, forceActive, t) ==
    IF forceActive
    THEN [s EXCEPT !.stopped = FALSE, !.paused = FALSE, !.questionStart = t]
    ELSE [s EXCEPT !.questionStart = t]

\* Line 355.
InvalidTimeLeft(tl) == Le(tl, 0)

\* Lines 360-362, 373-374, 409 and 412.
StartFields(s, tl, t) ==
    [s EXCEPT !.currentQuestionDuration = tl,
              !.paused = FALSE,
              !.stopped = FALSE,
              !.isTournamentMode = TRUE,
              !.previousQuestionUid = s.currentQuestionUid,
              !.questionStart = t]

\* A start that sends the question payload every time.
QuestionChangedAlways(s) == TRUE

\* Line 397: the question payload goes out again with the timer start.
QuestionChanged(s) ==
    s.previousQuestionUid = NullStr \/ s.previousQuestionUid # s.currentQuestionUid

\* Lines 366-406.
StartEvents(s, tl) ==
    << SetTimerEvent(tl, "active") >>
    \o (IF s.linkedQuizId # NullStr /\ Gt(tl, 0)
        THEN QuizMirror("play", s.currentQuestionUid, tl) ELSE << >>)
    \o (IF QuestionChanged(s)
        THEN << QuestionEvent(CurrentQuestion(s), FindIndex(s.currentQuestionUid), tl,
                              s.linkedQuizId # NullStr) >>
        ELSE << >>)

\* Lines 415-441: the setInterval entry; its closure holds remainingTime.
IntervalEntry(id, tl, t) ==
    [id |-> id, kind |-> "interval", due |-> t + TickPeriod, remainingTime |-> tl]
\* A deadline armed one tick period too late.
TimeoutEntryLate(id, tl, t) ==
    [id |-> id, kind |-> "timeout", due |-> t + tl + TickPeriod, remainingTime |-> 0]

\* Lines 443-459: the setTimeout entry.
TimeoutEntry(id, tl, t) ==
    [id |-> id, kind |-> "timeout", due |-> t + tl, remainingTime |-> 0]


\* handleTimerExpiration(io, code): expiry handling of the current question.
\* It is counted per countdown; the session's timing fields are left to the
\* timer controller.
ExpirationEvent == [ch |-> "internal", ev |-> "handleTimerExpiration"]

TriggerTournamentTimerSet(timeLeft, forceActive) ==
    /\ op' = [name |-> "setTimer", timeLeft |-> timeLeft, forceActive |-> forceActive]
    /\ UNCHANGED <<now, registered, fe, db, sent>>
    /\ IF ~registered \/ state.isDiffered \/ DuplicateStop(state, timeLeft)
       THEN /\ UNCHANGED <<state, timers, expirations>>
            /\ out' = << >>
       ELSE
       LET s0  == ClearTimerFields(state)
           tq0 == ClearTimerQueue(state, timers)
       IN
       IF timeLeft = 0
       THEN /\ state' = StopFields(s0)
            /\ timers' = tq0
            /\ out' = StopEvents(s0)
            /\ UNCHANGED expirations
       ELSE IF ~HasCurrentQuestion(s0)
       THEN /\ state' = s0
            /\ timers' = tq0
            /\ out' = << >>
            /\ UNCHANGED expirations
       ELSE
       LET tl == ResumeTimeLeft(s0, InitialTimeLeft(s0, timeLeft, forceActive), forceActive)
           s1 == ResumeFields(s0, forceActive, now)
       IN
       IF ~forceActive /\ s1.stopped
       THEN /\ state' = EditStoppedFields(s1, tl)
            /\ timers' = tq0
            /\ out' = << SetTimerEvent(tl, "stopped") >>
            /\ UNCHANGED expirations
       ELSE IF ~forceActive /\ s1.paused
       THEN /\ state' = EditPausedFields(s1, tl)
            /\ timers' = tq0
            /\ out' = EditPausedEvents(s1, tl)
            /\ UNCHANGED expirations
       ELSE
       LET s2 == PreStartFields(s1, forceActive, now)
       IN
       IF InvalidTimeLeft(tl)
       THEN /\ state' = s2
            /\ timers' = tq0
            /\ out' = << >>
            /\ UNCHANGED expirations
       ELSE
       LET s3  == StartFields(s2, tl, now)
           iid == FreshId(s3, tq0, {})
           tid == FreshId(s3, tq0, {iid})
       IN /\ state' = [s3 EXCEPT !.intervalTimer = iid, !.timer = tid, !.timerRef = tid]
          /\ timers' = tq0 \cup {IntervalEntry(iid, tl, now), TimeoutEntry(tid, tl, now)}
          /\ out' = StartEvents(s2, tl)
          /\ expirations' = 0

-----------------------------------------------------------------------------
(* Timer callbacks *)

Due(t) == t.due <= now

\* Lines 417-441: one firing of the tick interval t.
IntervalCallback(t) ==
    /\ t \in timers /\ t.kind = "interval" /\ Due(t)
    /\ op' = [name |-> "tick"]
    /\ UNCHANGED <<now, registered, fe, db, sent>>
    /\ LET rearmed(rem) == (timers \ {t}) \cup
                           {[t EXCEPT !.due = now + TickPeriod, !.remainingTime = rem]}
           rem == t.remainingTime - TickPeriod
       IN IF state.paused \/ state.stopped
          THEN /\ timers' = Cancel(rearmed(t.remainingTime), state.intervalTimer)
               /\ state' = [state EXCEPT !.intervalTimer = Null]
               /\ out' = << >>
               /\ UNCHANGED expirations
          ELSE IF rem <= 0
          THEN /\ timers' = Cancel(rearmed(rem), state.intervalTimer)
               /\ state' = [state EXCEPT !.intervalTimer = Null]
               /\ out' = << SetTimerEvent(Max0(rem), "active"), ExpirationEvent >>
               /\ expirations' = expirations + 1
          ELSE /\ timers' = rearmed(rem)
               /\ out' = << SetTimerEvent(Max0(rem), "active") >>
               /\ UNCHANGED <<state, expirations>>

\* Lines 444-459: the firing of the deadline timeout t.
TimeoutCallback(t) ==
    /\ t \in timers /\ t.kind = "timeout" /\ Due(t)
    /\ op' = [name |-> "deadline"]
    /\ UNCHANGED <<now, registered, fe, db, sent>>
    /\ IF state.paused \/ state.stopped
       THEN /\ timers' = timers \ {t}
            /\ out' = << >>
            /\ UNCHANGED <<state, expirations>>
       ELSE /\ timers' = Cancel(timers \ {t}, state.intervalTimer)
            /\ state' = [state EXCEPT !.intervalTimer = Null]
            /\ out' = << ExpirationEvent >>
            /\ expirations' = expirations + 1

\* The clock: it moves forward by d, but an armed timer fires at its due time.
NextDue(horizon) ==
    IF timers = {} THEN horizon
    ELSE (CHOOSE t \in timers : \A u \in timers : t.due <= u.due).due

Advance(d, horizon) ==
    /\ now' = Min2(Min2(now + d, NextDue(horizon)), horizon)
    /\ now' > now
    /\ op' = [name |-> "advance"]
    /\ out' = << >>
    /\ UNCHANGED <<registered, state, timers, expirations, fe, db, sent>>


-----------------------------------------------------------------------------
(* handleTournamentAnswer(io, socket, {code, questionUid, answerIdx,       *)
(*                                     clientTimestamp})                   *)

\* calculateScore(question, answer, questionStart, totalQuestions).totalScore:
\* a base score for a correct answer plus a rapidity bonus that shrinks with
\* the time the client took.
ScoreBase == 10
RapidityMax == 5
CalculateScore(q, answerIdx, clientTimestamp, questionStart) ==
    LET allowed == TempsOrDefault(q)
        used    == clientTimestamp - questionStart
        left    == IF used < 0 THEN allowed
                   ELSE IF used > allowed THEN 0 ELSE allowed - used
    IN IF answerIdx = q.correct
       THEN ScoreBase + (RapidityMax * left) \div allowed
       ELSE 0

\* Line 56: state.currentQuestionDuration || question.temps || 20
TimeAllowed(s, q) ==
    IF Truthy(s.currentQuestionDuration) THEN s.currentQuestionDuration
    ELSE TempsOrDefault(q)

\* The server-side lateness test without its grace period.
LateByServerNoGrace(s, q, t) == (t - s.questionStart) > TimeAllowed(s, q)

\* Line 91: too late by the server clock, grace period included.
LateByServer(s, q, t) == (t - s.questionStart) > TimeAllowed(s, q) + GracePeriod
\* Line 105: too late by the client's timestamp.
LateByClient(s, q, clientTimestamp) ==
    (clientTimestamp - s.questionStart) > TimeAllowed(s, q)

\* An answer store where the first answer to a question wins.
StoreAnswerKeepFirst(answers, j, uid, answerIdx, clientTimestamp) ==
    IF Has(answers, j) /\ Has(answers[j], uid) THEN answers
    ELSE Put(answers, j,
             Put(IF Has(answers, j) THEN answers[j] ELSE EmptyMap, uid,
                 [answerIdx |-> answerIdx, clientTimestamp |-> clientTimestamp]))

\* Lines 122-133: state.answers[joueurId][questionUid] = {answerIdx, clientTimestamp}
StoreAnswer(answers, j, uid, answerIdx, clientTimestamp) ==
    Put(answers, j,
        Put(IF Has(answers, j) THEN answers[j] ELSE EmptyMap, uid,
            [answerIdx |-> answerIdx, clientTimestamp |-> clientTimestamp]))

\* Line 122: the handler's local alreadyAnswered.
AlreadyAnswered(s, sock, questionUid) ==
    /\ Has(s.answers, SocketToJoueur(sock))
    /\ Has(s.answers[SocketToJoueur(sock)], questionUid)

\* Line 151: the participant's total, recomputed from scoredQuestions.
TotalScore(scoredQuestions) == SumValues(scoredQuestions)

\* A scoring step that adds the new score to the running total.
ScoreParticipantAdding(p, uid, totalScore) ==
    [p EXCEPT !.scoredQuestions = Put(p.scoredQuestions, uid, totalScore),
              !.score = p.score + totalScore]

\* Lines 138-151 on one participant.
ScoreParticipant(p, uid, totalScore) ==
    LET sq == Put(p.scoredQuestions, uid, totalScore)
    IN [p EXCEPT !.scoredQuestions = sq, !.score = TotalScore(sq)]

\* Lines 164-203: the answer distribution sent to dashboard and projection.
AnswerCount(answers, uid, idx) ==
    Cardinality({j \in DOMAIN answers :
                    Has(answers[j], uid) /\ answers[j][uid].answerIdx = idx})
NbReponses == 2
RoundPercent(count, total) ==
    IF total > 0 THEN (200 * count + total) \div (2 * total) ELSE 0
AnswerStats(answers, uid) ==
    LET total == Cardinality({j \in DOMAIN answers :
                     Has(answers[j], uid)
                     /\ answers[j][uid].answerIdx \in 0..(NbReponses - 1)})
    IN [i \in 0..(NbReponses - 1) |-> RoundPercent(AnswerCount(answers, uid, i), total)]
StatsEvents(answers, uid) ==
    LET total == Cardinality({j \in DOMAIN answers :
                     Has(answers[j], uid)
                     /\ answers[j][uid].answerIdx \in 0..(NbReponses - 1)})
    IN << [ch |-> "dashboard", ev |-> "quiz_answer_stats_update", uid |-> uid,
           stats |-> AnswerStats(answers, uid), totalAnswers |-> total],
          [ch |-> "projection", ev |-> "quiz_answer_stats_update", uid |-> uid,
           stats |-> AnswerStats(answers, uid), totalAnswers |-> total] >>

\* A screening that does not compare the answer's questionUid with the
\* current question.
AnswerDroppedAcceptingAnyUid(s, sock, questionUid) ==
    \/ SocketToJoueur(sock) = NullStr
    \/ ~HasCurrentQuestion(s)
    \/ s.questionStart = Null

\* Lines 29-62: the answer is dropped without any reply.
AnswerDropped(s, sock, questionUid) ==
    \/ SocketToJoueur(sock) = NullStr
    \/ ~HasCurrentQuestion(s)
    \/ s.currentQuestionUid # questionUid
    \/ s.questionStart = Null

\* Admission that applies the timing tests to a paused session too.
RejectionReasonTimedWhilePaused(s, questionUid, clientTimestamp, t) ==
    IF s.stopped THEN "stopped"
    ELSE IF \/ LateByServer(s, CurrentQuestion(s), t)
            \/ LateByClient(s, CurrentQuestion(s), clientTimestamp)
         THEN "late"
         ELSE ""

\* Admission that does not look at the stopped flag.
RejectionReasonIgnoringStop(s, questionUid, clientTimestamp, t) ==
    IF ~s.paused /\ ( \/ LateByServer(s, CurrentQuestion(s), t)
                      \/ LateByClient(s, CurrentQuestion(s), clientTimestamp) )
    THEN "late"
    ELSE ""

\* Lines 76-118: "stopped", "late" or "" (accepted) for an answer not dropped.
RejectionReason(s, questionUid, clientTimestamp, t) ==
    IF s.stopped THEN "stopped"
    ELSE IF ~s.paused /\ ( \/ LateByServer(s, CurrentQuestion(s), t)
                           \/ LateByClient(s, CurrentQuestion(s), clientTimestamp) )
         THEN "late"
         ELSE ""

HandleTournamentAnswer(sock, questionUid, answerIdx, clientTimestamp) ==
    /\ op' = [name |-> "submitAnswer", socket |-> sock, questionUid |-> questionUid,
              answerIdx |-> answerIdx, clientTimestamp |-> clientTimestamp,
              alreadyAnswered |-> AlreadyAnswered(state, sock, questionUid)]
    /\ UNCHANGED <<now, registered, timers, expirations, fe, db, sent>>
    /\ IF ~registered \/ AnswerDropped(state, sock, questionUid)
       THEN /\ state' = state
            /\ out' = << >>
       ELSE
       LET reason == RejectionReason(state, questionUid, clientTimestamp, now)
           j      == SocketToJoueur(sock)
       IN
       IF reason # ""
       THEN /\ state' = state
            /\ out' = << Receipt(sock, TRUE, reason) >>
       ELSE
       LET answers == StoreAnswer(state.answers, j, questionUid, answerIdx, clientTimestamp)
           total   == CalculateScore(CurrentQuestion(state), answerIdx, clientTimestamp,
                                     state.questionStart)
       IN /\ state' = [state EXCEPT
                          !.answers = answers,
                          !.participants[j] = ScoreParticipant(@, questionUid, total)]
          /\ out' = << Receipt(sock, FALSE, "") >>
                    \o (IF state.linkedQuizId # NullStr
                        THEN StatsEvents(answers, questionUid) ELSE << >>)


-----------------------------------------------------------------------------
(* forceTournamentEnd(io, code): an async function.  Each step below is    *)
(* one run of the event loop: the resolution of the pending await followed *)
(* by the synchronous code up to the next await.                           *)

\* Object.values(state.participants), in insertion order.
ParticipantOrder == << "j1", "socket_2" >>

\* Stable sort of a sequence of leaderboard entries by descending score.
RECURSIVE InsertDesc(_, _)
InsertDesc(sorted, e) ==
    IF sorted = << >> THEN << e >>
    ELSE IF Head(sorted).score >= e.score
         THEN << Head(sorted) >> \o InsertDesc(Tail(sorted), e)
         ELSE << e >> \o sorted
RECURSIVE SortDesc(_)
SortDesc(entries) ==
    IF entries = << >> THEN << >>
    ELSE InsertDesc(SortDesc(SubSeq(entries, 1, Len(entries) - 1)), entries[Len(entries)])

\* Math.round(score * totalQuestions / asked) for non-negative operands.
ScaleScore(score, asked, totalQuestions) ==
    IF asked > 0 THEN (2 * score * totalQuestions + asked) \div (2 * asked) ELSE score

\* computeLeaderboard(state, askedQuestions, totalQuestions): every
\* participant's score scaled by total questions over asked questions,
\* sorted by descending score.
ComputeLeaderboard(s, askedQuestions, totalQuestions) ==
    SortDesc([n \in DOMAIN ParticipantOrder |->
                [id |-> ParticipantOrder[n],
                 score |-> ScaleScore(s.participants[ParticipantOrder[n]].score,
                                      Cardinality(askedQuestions), totalQuestions)]])

\* Lines 512-527: askedQuestions after the sync from the linked quiz.
SyncedAskedQuestions(s) ==
    IF s.linkedQuizId # NullStr THEN s.askedQuestions \cup QuizAskedQuestions
    ELSE s.askedQuestions

\* Lines 531-537: the scaled scores written back onto the participants.
ApplyScaled(participants, scaled) ==
    [j \in DOMAIN participants |->
        IF \E n \in DOMAIN scaled : scaled[n].id = j
        THEN [participants[j] EXCEPT !.score =
                 scaled[CHOOSE n \in DOMAIN scaled : scaled[n].id = j].score]
        ELSE participants[j]]

\* Line 563: the participant gets a score record.
Eligible(p) == ~p.isDiffered /\ p.id # NullStr /\ ~StartsWithSocket(p.id)

\* The next position >= k of ParticipantOrder holding an eligible participant;
\* Len + 1 when the loop of lines 562-566 is over.
NextEligible(s, k) ==
    IF \E n \in k..Len(ParticipantOrder) : Eligible(s.participants[ParticipantOrder[n]])
    THEN CHOOSE n \in k..Len(ParticipantOrder) :
            /\ Eligible(s.participants[ParticipantOrder[n]])
            /\ \A m \in k..(n - 1) : ~Eligible(s.participants[ParticipantOrder[m]])
    ELSE Len(ParticipantOrder) + 1

\* Lines 489-552: from the call to the first await.
ForceEndStart(i) ==
    /\ fe[i].pc = "idle"
    /\ \A h \in 1..(i - 1) : fe[h].pc # "idle"
    /\ op' = [name |-> "forceEnd", i |-> i]
    /\ out' = << >>
    /\ UNCHANGED <<now, registered, expirations, db, sent>>
    /\ IF ~registered
       THEN /\ fe' = [fe EXCEPT ![i].pc = "done"]
            /\ UNCHANGED <<state, timers>>
       ELSE LET asked  == SyncedAskedQuestions(state)
                scaled == ComputeLeaderboard(state, asked, Len(Questions))
            IN /\ timers' = Cancel(timers, state.timer)
               /\ state' = [state EXCEPT !.timer = Null,
                                         !.askedQuestions = asked,
                                         !.participants = ApplyScaled(@, scaled)]
               /\ fe' = [fe EXCEPT ![i] = [pc |-> "awaitUpdate", scaled |-> scaled, k |-> 0]]

\* An end of forceTournamentEnd that leaves the session in the registry.
ForceEndFinishKeepsSession(i) ==
    /\ sent' = [sent EXCEPT !.redirect = @ + 1]
    /\ registered' = registered
    /\ fe' = [fe EXCEPT ![i].pc = "done"]

\* Lines 572-575: the redirect, then the session leaves the registry.
ForceEndFinish(i) ==
    /\ sent' = [sent EXCEPT !.redirect = @ + 1]
    /\ registered' = FALSE
    /\ fe' = [fe EXCEPT ![i].pc = "done"]

\* Line 564 issued for position k, or the end of the loop.
ForceEndLoop(i, k) ==
    IF k <= Len(ParticipantOrder)
    THEN /\ fe' = [fe EXCEPT ![i].pc = "awaitSave", ![i].k = k]
         /\ UNCHANGED <<registered, sent>>
    ELSE ForceEndFinish(i)

\* Lines 545-559: prisma.tournoi.update settles.  If it rejects, the
\* function ends there with the rejection.
ForceEndUpdateSettled(i, ok) ==
    /\ fe[i].pc = "awaitUpdate"
    /\ op' = [name |-> "forceEnd.update", i |-> i, ok |-> ok]
    /\ UNCHANGED <<now, state, timers, expirations, registered>>
    /\ IF ok
       THEN /\ db' = [db EXCEPT !.leaderboardWrites = @ + 1,
                                !.leaderboard = fe[i].scaled]
            /\ sent' = [sent EXCEPT !.tournament_end = @ + 1]
            /\ out' = << [ch |-> "live", ev |-> "tournament_end",
                          leaderboard |-> fe[i].scaled] >>
            /\ fe' = [fe EXCEPT ![i].pc = "awaitFind"]
       ELSE /\ fe' = [fe EXCEPT ![i].pc = "rejected"]
            /\ out' = << >>
            /\ UNCHANGED <<db, sent>>

\* Lines 559-570: prisma.tournoi.findUnique settles: the tournament row, no
\* row, or an error (caught at line 568).
ForceEndFindSettled(i, res) ==
    /\ fe[i].pc = "awaitFind"
    /\ op' = [name |-> "forceEnd.find", i |-> i, res |-> res]
    /\ UNCHANGED <<now, state, timers, expirations, db>>
    /\ IF res = "found"
       THEN ForceEndLoop(i, NextEligible(state, 1))
       ELSE ForceEndFinish(i)
    /\ out' = IF fe'[i].pc = "done"
              THEN << [ch |-> "live", ev |-> "tournament_finished_redirect"] >>
              ELSE << >>

\* saveParticipantScore(prisma, tournoi.id, participant) settles: the score
\* record of the participant at position k is written, or the call throws
\* (caught at line 568).
ForceEndSaveSettled(i, ok) ==
    /\ fe[i].pc = "awaitSave"
    /\ op' = [name |-> "forceEnd.save", i |-> i, ok |-> ok]
    /\ UNCHANGED <<now, state, timers, expirations>>
    /\ LET j == ParticipantOrder[fe[i].k]
       IN IF ok
          THEN /\ db' = [db EXCEPT !.scoreWrites[j] = @ + 1,
                                   !.scores[j] = state.participants[j].score]
               /\ ForceEndLoop(i, NextEligible(state, fe[i].k + 1))
          ELSE /\ db' = db
               /\ ForceEndFinish(i)
    /\ out' = IF fe'[i].pc = "done"
              THEN << [ch |-> "live", ev |-> "tournament_finished_redirect"] >>
              ELSE << >>

-----------------------------------------------------------------------------
(* Event sources.  Each takes the set of arguments its events may carry.  *)

\* Moderator events.  Q: <<index, linkedQuizId, initialTime, targetQuestionUid>>;
\* P: remainingTime overrides; T: <<timeLeft, forceActive>>.
Moderator(Q, P, T) ==
    \/ \E q \in Q : TriggerTournamentQuestion(q[1], q[2], q[3], q[4])
    \/ \E r \in P : TriggerTournamentPause(r)
    \/ \E t \in T : TriggerTournamentTimerSet(t[1], t[2])

\* Node's timers phase.
TimerCallbacks ==
    \/ \E t \in timers : IntervalCallback(t)
    \/ \E t \in timers : TimeoutCallback(t)

\* Players' answers.  The client timestamp is the server clock plus a skew.
\* A: <<socket, questionUid, answerIdx, skew>>.
Players(A) ==
    \E a \in A : HandleTournamentAnswer(a[1], a[2], a[3], now + a[4])

\* forceTournamentEnd calls and the settling of their awaits.
Finalisation(n) ==
    \/ \E i \in 1..n : ForceEndStart(i)
    \/ \E i \in 1..n, ok \in BOOLEAN : ForceEndUpdateSettled(i, ok)
    \/ \E i \in 1..n, res \in {"found", "none", "error"} : ForceEndFindSettled(i, res)
    \/ \E i \in 1..n, ok \in BOOLEAN : ForceEndSaveSettled(i, ok)

\* The clock moves in steps drawn from D, up to the horizon.
Clock(D, horizon) == \E d \in D : Advance(d, horizon)

-----------------------------------------------------------------------------
(* Spec: every event source on one session, with few arguments each. *)

\* Clock steps the full specification takes.
MaxStepsAll == 3

Next ==
    \/ Moderator({<<0, NullStr, Null, NullStr>>},
                 {Null},
                 {<<0, FALSE>>, <<1000, TRUE>>})
    \/ TimerCallbacks
    \/ Players({<<"s1", "q1", 0, 0>>})
    \/ Finalisation(1)
    \/ Clock({StepMs}, T0 + MaxStepsAll * StepMs)

Spec == Init /\ [][Next]_vars

-----------------------------------------------------------------------------
(* SpecTimer: the timer controller alone, with all its argument shapes. *)

NextTimer ==
    \/ Moderator({<<0, NullStr, Null, NullStr>>, <<1, "quiz", Null, NullStr>>},
                 {Null, 1500},
                 {<<Null, TRUE>>, <<-1000, FALSE>>, <<-1000, TRUE>>, <<0, FALSE>>,
                  <<540, TRUE>>, <<1000, FALSE>>, <<1000, TRUE>>, <<2000, TRUE>>})
    \/ TimerCallbacks
    \/ Clock({StepMs}, MaxNow)

SpecTimer == Init /\ [][NextTimer]_vars

-----------------------------------------------------------------------------
(* SpecAnswer: answer admission against a running, paused or stopped       *)
(* countdown.  The clock moves in steps of 300 and 500 ms, so that answers *)
(* arrive 100 ms before the duration is over, at the end of the grace      *)
(* period and 100 ms after it.                                             *)

\* Horizon of SpecAnswer, in units of 100 ms.
MaxTenthsAnswer == 16

NextAnswer ==
    \/ Moderator({<<0, NullStr, Null, NullStr>>},
                 {Null},
                 {<<0, FALSE>>, <<1000, TRUE>>})
    \/ TimerCallbacks
    \/ Players({<<"s1", "q1", 0, 0>>, <<"s1", "q1", 1, -600>>, <<"s1", "q2", 0, 0>>})
    \/ Clock({300, 500}, T0 + MaxTenthsAnswer * 100)

SpecAnswer == Init /\ [][NextAnswer]_vars

-----------------------------------------------------------------------------
(* SpecEnd: overlapping forceTournamentEnd calls on a session with scores. *)

NextEnd ==
    \/ Moderator({<<0, NullStr, Null, NullStr>>}, {Null}, {<<1000, TRUE>>})
    \/ Players({<<"s1", "q1", 0, 0>>, <<"sX", "q1", 0, 0>>})
    \/ Finalisation(MaxForceEnd)

SpecEnd == Init /\ [][NextEnd]_vars

-----------------------------------------------------------------------------
(* SpecAdmission: answers from a known and an unknown socket, for the      *)
(* current and for another question, before the start, in and after the    *)
(* window, on paused and stopped sessions.                                 *)

MaxStepsAdmission == 4

NextAdmission ==
    \/ Moderator({<<0, NullStr, Null, NullStr>>},
                 {Null},
                 {<<0, FALSE>>, <<1000, TRUE>>})
    \/ TimerCallbacks
    \/ Players({<<"s1", "q1", 0, 0>>, <<"s1", "q2", 0, 0>>, <<"sX", "q1", 0, 0>>})
    \/ Clock({StepMs}, T0 + MaxStepsAdmission * StepMs)

SpecAdmission == Init /\ [][NextAdmission]_vars

-----------------------------------------------------------------------------
(* SpecPause: pauses with and without a remaining-time override, at and    *)
(* after the start of countdowns whose duration is or is not a whole       *)
(* number of tenths of a second.                                           *)

MaxStepsPause == 3

NextPause ==
    \/ Moderator({<<0, NullStr, Null, NullStr>>},
                 {Null, -1000, 1500, 1550},
                 {<<0, FALSE>>, <<560, TRUE>>, <<1000, TRUE>>})
    \/ TimerCallbacks
    \/ Clock({StepMs}, T0 + MaxStepsPause * StepMs)

SpecPause == Init /\ [][NextPause]_vars

-----------------------------------------------------------------------------
(* SpecSwitch: the moderator switches between two questions while players  *)
(* answer either of them, on running, paused and stopped sessions.         *)

NextSwitch ==
    \/ Moderator({<<0, NullStr, Null, NullStr>>, <<1, NullStr, Null, NullStr>>},
                 {Null},
                 {<<0, FALSE>>, <<1000, TRUE>>})
    \/ Players({<<"s1", "q1", 0, 0>>, <<"s1", "q2", 1, 0>>})

SpecSwitch == Init /\ [][NextSwitch]_vars

-----------------------------------------------------------------------------
(* SpecQuestion: triggerTournamentQuestion with resolvable and unresolvable *)
(* targets, by index and by uid, on idle, running, paused and stopped      *)
(* sessions.                                                               *)

NextQuestion ==
    Moderator({<<0, NullStr, Null, NullStr>>, <<1, NullStr, 1500, NullStr>>,
               <<0, "quiz", Null, "q2">>, <<1, NullStr, 0, "q1">>,
               <<-1, "quiz", Null, NullStr>>, <<2, "quiz", Null, NullStr>>,
               <<0, "quiz", Null, "qZ">>},
              {Null},
              {<<0, FALSE>>, <<1000, TRUE>>})

SpecQuestion == Init /\ [][NextQuestion]_vars

-----------------------------------------------------------------------------
(* Properties *)

\* The session has a live entry in the registry and is driven by a moderator.
Live == registered /\ ~state.isDiffered

\* The last handler was handleTournamentAnswer and it accepted the answer.
AnswerAccepted ==
    /\ op.name = "submitAnswer"
    /\ out # << >>
    /\ out[1] = Receipt(op.socket, FALSE, "")

\* The answer of op' is from a resolved player, for the session's current
\* question, and the session is in the registry.
Submitted ==
    /\ op'.name = "submitAnswer"
    /\ registered
    /\ SocketToJoueur(op'.socket) # NullStr
    /\ HasCurrentQuestion(state)
    /\ op'.questionUid = state.currentQuestionUid

\* handleTournamentAnswer stored and scored the answer of op' for player j
\* and acknowledged it.
Recorded(j) ==
    /\ out' # << >>
    /\ out'[1] = Receipt(op'.socket, FALSE, "")
    /\ Has(state'.answers, j)
    /\ Has(state'.answers[j], op'.questionUid)
    /\ state'.answers[j][op'.questionUid] =
           [answerIdx |-> op'.answerIdx, clientTimestamp |-> op'.clientTimestamp]
    /\ Has(state'.participants[j].scoredQuestions, op'.questionUid)

\* handleTournamentAnswer left answers and scores as they were.
NothingRecorded ==
    /\ state'.answers = state.answers
    /\ state'.participants = state.participants

----
\* C1: in every reachable state exactly one of active, paused and stopped
\* holds, where active is the state with neither flag set; that is, paused
\* and stopped are never both true.
C1_ExactlyOneTimerState ==
    LET active == ~state.paused /\ ~state.stopped
    IN /\ Cardinality({b \in {"active", "paused", "stopped"} :
                         \/ b = "active" /\ active
                         \/ b = "paused" /\ state.paused
                         \/ b = "stopped" /\ state.stopped}) = 1
       /\ ~(state.paused /\ state.stopped)

\* A stop has just been applied to a session whose countdown had been paused
\* or run: stopped is set and paused is clear.
C1_Witness ==
    /\ op.name = "setTimer" /\ op.timeLeft = 0
    /\ out # << >>
    /\ state.stopped /\ ~state.paused
    /\ state.questionStart # Null

----
\* C2: when setTimer(timeLeft, forceActive = true) runs on a paused session
\* whose countdown had been started, the countdown it starts runs for the
\* pausedRemainingTime held by the session, from now, whatever timeLeft the
\* caller passed.
C2_ResumeRunsPausedRemainingTime ==
    [][ ( /\ op'.name = "setTimer" /\ op'.forceActive /\ op'.timeLeft # 0
          /\ Live /\ state.paused /\ HasCurrentQuestion(state)
          /\ state.questionStart # Null
          /\ IsNum(state.pausedRemainingTime) /\ state.pausedRemainingTime >= 0
          /\ state'.timer # Null )
        => ( /\ state'.currentQuestionDuration = state.pausedRemainingTime
             /\ state'.questionStart = now ) ]_vars

----
\* C3: on a session neither paused nor stopped, with questionStart set, an
\* answer for the current question is rejected with reason "late" exactly
\* when the server-elapsed time exceeds the allowed duration plus 500 ms or
\* the client-elapsed time exceeds the allowed duration; otherwise it is
\* recorded and acknowledged.
C3_LateIffOutsideWindow ==
    [][ ( /\ Submitted
          /\ ~state.paused /\ ~state.stopped
          /\ state.questionStart # Null )
        => LET allowed == TimeAllowed(state, CurrentQuestion(state))
               late == \/ now - state.questionStart > allowed + 500
                       \/ op'.clientTimestamp - state.questionStart > allowed
           IN IF late
              THEN /\ out' = << Receipt(op'.socket, TRUE, "late") >>
                   /\ NothingRecorded
              ELSE Recorded(SocketToJoueur(op'.socket)) ]_vars

\* An answer that arrived 600 ms after the allowed duration, with a client
\* timestamp inside the window, was rejected as late.
C3_Witness ==
    /\ op.name = "submitAnswer"
    /\ out = << Receipt(op.socket, TRUE, "late") >>
    /\ ~state.paused /\ ~state.stopped
    /\ now - state.questionStart = TimeAllowed(state, CurrentQuestion(state)) + 600
    /\ op.clientTimestamp - state.questionStart <= TimeAllowed(state, CurrentQuestion(state))

----
\* C4 as stated: in every reachable state every participant's score is the
\* sum of the values of its scoredQuestions.
C4_ScoreAlwaysSum ==
    \A j \in Joueurs :
        state.participants[j].score = SumValues(state.participants[j].scoredQuestions)

\* C4, amended: as long as forceTournamentEnd has not been called on the
\* session, every participant's score is the sum of the values of its
\* scoredQuestions.
C4_ScoreIsSumUntilForceEnd ==
    (\A i \in DOMAIN fe : fe[i].pc = "idle")
        => \A j \in Joueurs :
              state.participants[j].score =
                  SumValues(state.participants[j].scoredQuestions)

\* A player with points whose answer to a question was just scored again,
\* before any forceTournamentEnd.
C4_Witness ==
    /\ \A i \in DOMAIN fe : fe[i].pc = "idle"
    /\ AnswerAccepted /\ op.alreadyAnswered
    /\ state.participants["j1"].score > 0

----
----
----
----
\* Stop broadcasts to the session channel and stop mirrors in an output.
StopBroadcasts(o) ==
    Cardinality({n \in DOMAIN o : o[n].ev = "tournament_set_timer"
                                  /\ o[n].questionState = "stopped" /\ o[n].timeLeft = 0})
StopMirrors(o) ==
    Cardinality({n \in DOMAIN o : o[n].ev \in {"quiz_timer_update", "updateQuestionTimer"}
                                  /\ o[n].status = "stop"})

\* C8: setTimer(0) on a session already stopped changes no session field,
\* cancels no timer and emits nothing; the stop that made the session
\* stopped broadcast exactly one stop to the session channel.
C8_DuplicateStopIsNoOp ==
    [][ (op'.name = "setTimer" /\ op'.timeLeft = 0 /\ Live)
        => IF state.stopped
           THEN /\ state' = state
                /\ timers' = timers
                /\ StopBroadcasts(out') = 0
                /\ StopMirrors(out') = 0
                /\ out' = << >>
           ELSE /\ state'.stopped
                /\ StopBroadcasts(out') = 1 ]_vars

\* A stop was just ignored on a stopped session.
C8_Witness ==
    /\ op.name = "setTimer" /\ op.timeLeft = 0
    /\ Live /\ state.stopped
    /\ out = << >>

----
\* C9: over all forceTournamentEnd invocations on one session, the scaled
\* leaderboard is persisted at most once, tournament_end is broadcast at most
\* once and each participant's score record is persisted at most once.
C9_FinalisedOnce ==
    /\ db.leaderboardWrites <= 1
    /\ sent.tournament_end <= 1
    /\ \A j \in Joueurs : db.scoreWrites[j] <= 1

----
\* C10: for each countdown started by setTimer, handleTimerExpiration is
\* invoked at most once.
C10_ExpiresOnce == expirations <= 1

----
\* C11: a forceTournamentEnd invoked on a registered session leaves neither
\* the tick timer nor the deadline timer armed.
C11_ForceEndCancelsTimers ==
    [][ (op'.name = "forceEnd" /\ registered) => timers' = {} ]_vars

----
\* C12: when the durable leaderboard write of forceTournamentEnd fails,
\* tournament_end is still broadcast to the session channel with the scaled
\* leaderboard.
C12_BroadcastDespiteFailedWrite ==
    [][ (op'.name = "forceEnd.update" /\ ~op'.ok)
        => ( /\ sent'.tournament_end = sent.tournament_end + 1
             /\ out' = << [ch |-> "live", ev |-> "tournament_end",
                           leaderboard |-> fe[op'.i].scaled] >> ) ]_vars

----
\* The score records written so far, over all participants.
ScoreWrites(d) == SumOver(d.scoreWrites, DOMAIN d.scoreWrites)

\* C13: every step of a forceTournamentEnd invocation does its part in the
\* order leaderboard persisted, tournament_end broadcast, score records
\* persisted, redirect broadcast, session removed; an invocation that ended
\* that way leaves no registry entry, and an invocation on a key without a
\* registry entry changes nothing and emits nothing.
C13_FinalisationOrder ==
    [][ /\ \A i \in DOMAIN fe :
            /\ fe'[i].pc # fe[i].pc
               => <<fe[i].pc, fe'[i].pc>> \in
                     { <<"idle", "awaitUpdate">>, <<"idle", "done">>,
                       <<"awaitUpdate", "awaitFind">>, <<"awaitUpdate", "rejected">>,
                       <<"awaitFind", "awaitSave">>, <<"awaitFind", "done">>,
                       <<"awaitSave", "done">> }
            /\ (fe[i].pc = "idle" /\ fe'[i].pc = "awaitUpdate")
               => db' = db /\ sent' = sent /\ registered' = registered
            /\ (fe[i].pc = "awaitUpdate" /\ fe'[i].pc = "awaitFind")
               => /\ db'.leaderboardWrites = db.leaderboardWrites + 1
                  /\ db'.leaderboard = fe[i].scaled
                  /\ sent'.tournament_end = sent.tournament_end + 1
                  /\ out' = << [ch |-> "live", ev |-> "tournament_end",
                                leaderboard |-> fe[i].scaled] >>
                  /\ ScoreWrites(db') = ScoreWrites(db)
                  /\ sent'.redirect = sent.redirect
                  /\ registered' = registered
            /\ (fe[i].pc \in {"awaitFind", "awaitSave"} /\ fe'[i] # fe[i])
               => /\ db'.leaderboardWrites = db.leaderboardWrites
                  /\ sent'.tournament_end = sent.tournament_end
                  /\ ScoreWrites(db') \in {ScoreWrites(db), ScoreWrites(db) + 1}
                  /\ IF fe'[i].pc = "done"
                     THEN /\ sent'.redirect = sent.redirect + 1
                          /\ out' = << [ch |-> "live", ev |-> "tournament_finished_redirect"] >>
                          /\ ~registered'
                     ELSE /\ sent'.redirect = sent.redirect
                          /\ out' = << >>
                          /\ registered' = registered
        /\ (op'.name = "forceEnd" /\ ~registered)
           => /\ state' = state /\ timers' = timers /\ db' = db /\ sent' = sent
              /\ out' = << >> /\ ~registered' ]_vars

\* A forceTournamentEnd ran to completion: one leaderboard write, one
\* tournament_end, the score record of the player with a durable identity,
\* the redirect, and no registry entry left.
C13_Witness ==
    /\ fe[1].pc = "done" /\ fe[2].pc = "idle"
    /\ db.leaderboardWrites = 1 /\ sent.tournament_end = 1
    /\ db.scoreWrites["j1"] = 1 /\ db.scoreWrites["socket_2"] = 0
    /\ sent.redirect = 1
    /\ ~registered

----
\* C14: setTimer with a negative timeLeft and forceActive = false changes no
\* session field, leaves the armed timers as they were and broadcasts
\* nothing.
C14_NegativeTimeLeftAborts ==
    [][ ( /\ op'.name = "setTimer" /\ ~op'.forceActive
          /\ op'.timeLeft # Null /\ op'.timeLeft < 0 )
        => (state' = state /\ timers' = timers /\ out' = << >>) ]_vars

----
\* C15: whenever the session has a current question, currentQuestionDuration
\* is a non-negative number.
C15_DurationNonNegative ==
    HasCurrentQuestion(state)
        => (IsNum(state.currentQuestionDuration) /\ state.currentQuestionDuration >= 0)

----
\* C16: pausedRemainingTime is non-null exactly when the session is paused.
C16_PausedRemainingIffPaused ==
    (state.pausedRemainingTime # Null) <=> state.paused

----
\* C17: pause on a session that is deferred, paused, stopped, or on which no
\* countdown was ever started, changes no session field, cancels no timer
\* and broadcasts nothing.
C17_PauseOnlyFromActive ==
    [][ ( /\ op'.name = "pause"
          /\ \/ ~Live
             \/ state.paused
             \/ state.stopped
             \/ state.questionStart = Null )
        => (state' = state /\ timers' = timers /\ out' = << >>) ]_vars

----
\* The armed timers of one kind.
Armed(tq, kind) == {t \in tq : t.kind = kind}

\* C18: setTimer(timeLeft > 0, forceActive = true) on a registered,
\* non-deferred session with a current question leaves paused and stopped
\* false, questionStart at now, and exactly one tick timer and one deadline
\* timer armed, the ones the session holds.
C18_ForceActiveStarts ==
    [][ ( /\ op'.name = "setTimer" /\ op'.forceActive
          /\ op'.timeLeft # Null /\ op'.timeLeft > 0
          /\ Live /\ HasCurrentQuestion(state) )
        => ( /\ ~state'.paused /\ ~state'.stopped
             /\ state'.questionStart = now
             /\ Cardinality(Armed(timers', "interval")) = 1
             /\ Cardinality(Armed(timers', "timeout")) = 1
             /\ \A t \in Armed(timers', "interval") : t.id = state'.intervalTimer
             /\ \A t \in Armed(timers', "timeout") : t.id = state'.timer ) ]_vars

\* A forced start on a session that had been paused before: active, with
\* its two timers.
C18_Witness ==
    /\ op.name = "setTimer" /\ op.forceActive /\ op.timeLeft = 1000
    /\ Live /\ ~state.paused /\ ~state.stopped
    /\ state.pausedAt = Null /\ state.pausedRemainingTime # Null
    /\ state.questionStart = now
    /\ Cardinality(timers) = 2

----
\* C19 as stated: setTimer(timeLeft > 0, forceActive = false) on a stopped
\* session sets currentQuestionDuration to timeLeft and nothing else, arms no
\* timer and broadcasts the duration tagged "stopped".
C19_EditStopped ==
    [][ ( /\ op'.name = "setTimer" /\ ~op'.forceActive
          /\ op'.timeLeft # Null /\ op'.timeLeft > 0
          /\ Live /\ state.stopped )
        => ( /\ state' = [state EXCEPT !.currentQuestionDuration = op'.timeLeft]
             /\ timers' = {}
             /\ out' = << SetTimerEvent(op'.timeLeft, "stopped") >> ) ]_vars

\* C19, amended: the same on a stopped session that has a current question.
C19_EditStoppedWithQuestion ==
    [][ ( /\ op'.name = "setTimer" /\ ~op'.forceActive
          /\ op'.timeLeft # Null /\ op'.timeLeft > 0
          /\ Live /\ state.stopped /\ HasCurrentQuestion(state) )
        => ( /\ state' = [state EXCEPT !.currentQuestionDuration = op'.timeLeft]
             /\ timers' = {}
             /\ out' = << SetTimerEvent(op'.timeLeft, "stopped") >> ) ]_vars

\* The duration of a stopped session was just edited; its countdown had
\* been started before.
C19_Witness ==
    /\ op.name = "setTimer" /\ ~op.forceActive /\ op.timeLeft = 1000
    /\ state.stopped /\ ~state.paused
    /\ state.currentQuestionDuration = 1000
    /\ state.questionStart # Null /\ state.questionStart < now
    /\ timers = {}
    /\ out = << SetTimerEvent(1000, "stopped") >>

----
\* C20: setTimer(timeLeft > 0, forceActive = false) on a paused session sets
\* pausedRemainingTime and currentQuestionDuration to timeLeft, leaves the
\* session paused and arms no timer.
C20_EditPaused ==
    [][ ( /\ op'.name = "setTimer" /\ ~op'.forceActive
          /\ op'.timeLeft # Null /\ op'.timeLeft > 0
          /\ Live /\ state.paused )
        => ( /\ state'.pausedRemainingTime = op'.timeLeft
             /\ state'.currentQuestionDuration = op'.timeLeft
             /\ state'.paused /\ ~state'.stopped
             /\ timers' = {} ) ]_vars

----
\* C21: setTimer(timeLeft > 0, forceActive = false) on a session that is
\* neither paused nor stopped and has a current question replaces the armed
\* timers by one tick timer and one deadline timer counted from now, sets
\* questionStart to now and currentQuestionDuration to timeLeft, and leaves
\* the session active; the deadline is timeLeft after the edit.
C21_LiveEdit ==
    [][ ( /\ op'.name = "setTimer" /\ ~op'.forceActive
          /\ op'.timeLeft # Null /\ op'.timeLeft > 0
          /\ Live /\ ~state.paused /\ ~state.stopped
          /\ HasCurrentQuestion(state) )
        => ( /\ state'.questionStart = now
             /\ state'.currentQuestionDuration = op'.timeLeft
             /\ ~state'.paused /\ ~state'.stopped
             /\ Cardinality(timers') = 2
             /\ \E t \in timers' : /\ t.kind = "timeout"
                                   /\ t.due = now + op'.timeLeft
             /\ \E t \in timers' : /\ t.kind = "interval"
                                   /\ t.due = now + TickPeriod
                                   /\ t.remainingTime = op'.timeLeft ) ]_vars

\* A countdown started earlier for the same question was just edited to
\* 1 s on a session never paused: the new deadline is 1 s from now.
C21_Witness ==
    /\ op.name = "setTimer" /\ ~op.forceActive /\ op.timeLeft = 1000
    /\ now > T0
    /\ out = << SetTimerEvent(1000, "active") >>
    /\ state.pausedRemainingTime = Null
    /\ ~state.paused /\ ~state.stopped
    /\ state.questionStart = now
    /\ \E t \in timers : t.kind = "timeout" /\ t.due = now + 1000

----
\* The target named by a setQuestion call is not a question of the session:
\* the uid, when one is given, is not found; else the index is not a position.
Unresolvable(index, targetQuestionUid) ==
    IF targetQuestionUid # NullStr
    THEN \A i \in 1..Len(Questions) : Questions[i].uid # targetQuestionUid
    ELSE index < 0 \/ index >= Len(Questions)

\* C22: a setQuestion whose target cannot be resolved (unknown uid, negative
\* or out-of-range index) leaves the whole session unchanged and broadcasts
\* nothing.
C22_UnresolvableTargetChangesNothing ==
    [][ ( /\ op'.name = "setQuestion" /\ registered
          /\ Unresolvable(op'.index, op'.targetQuestionUid) )
        => ( state' = state /\ out' = << >> ) ]_vars

----
\* The duration a resolvable setQuestion gives the question at 0-based
\* position i: the override when one is supplied, else the question's own
\* time when it has one, else 20 s.
ExpectedDuration(i, initialTime) ==
    IF initialTime # Null THEN initialTime
    ELSE IF Questions[i + 1].temps # Null /\ Questions[i + 1].temps # 0
         THEN Questions[i + 1].temps
         ELSE 20 * 1000

\* C23: a setQuestion with a resolvable target sets currentQuestionUid to the
\* question found by the uid when one is given, whatever the index, else to
\* the question at the index, and currentQuestionDuration to the override,
\* else the question's own time, else 20 s.
C23_ResolvableTarget ==
    [][ ( /\ op'.name = "setQuestion" /\ registered
          /\ ~Unresolvable(op'.index, op'.targetQuestionUid) )
        => LET i == IF op'.targetQuestionUid # NullStr
                    THEN CHOOSE k \in 0..(Len(Questions) - 1) :
                             Questions[k + 1].uid = op'.targetQuestionUid
                    ELSE op'.index
           IN /\ state'.currentQuestionUid = Questions[i + 1].uid
              /\ state'.currentQuestionDuration = ExpectedDuration(i, op'.initialTime) ]_vars

\* The call named q2 by uid and position 0 by index, with no override: the
\* current question is q2, which has no time of its own, for 20 s.
C23_Witness ==
    /\ op.name = "setQuestion" /\ op.index = 0 /\ op.targetQuestionUid = "q2"
    /\ op.initialTime = Null
    /\ state.currentQuestionUid = "q2"
    /\ state.currentQuestionDuration = 20000
    /\ Len(out) = 1

----
\* C24: setQuestion arms and cancels no timer and leaves paused, stopped,
\* questionStart, pausedRemainingTime, the answers and the participants
\* unchanged.
C24_SetQuestionStartsNothing ==
    [][ op'.name = "setQuestion"
        => ( /\ timers' = timers
             /\ state'.timer = state.timer
             /\ state'.intervalTimer = state.intervalTimer
             /\ state'.paused = state.paused
             /\ state'.stopped = state.stopped
             /\ state'.questionStart = state.questionStart
             /\ state'.pausedRemainingTime = state.pausedRemainingTime
             /\ state'.answers = state.answers
             /\ state'.participants = state.participants ) ]_vars

\* A paused session whose countdown had been started for q1 was just given
\* question q2: it is still paused with its remaining time.
C24_Witness ==
    /\ op.name = "setQuestion" /\ Len(out) = 1
    /\ state.currentQuestionUid = "q2"
    /\ state.previousQuestionUid = "q1"
    /\ state.paused /\ state.pausedRemainingTime # Null
    /\ state.questionStart # Null

----
\* C25: an answer from a resolved player of a session with a current question
\* that is for another question, or that arrives while questionStart is not
\* set, is answered by exactly one rejection receipt.
C25_RejectionsHaveReceipts ==
    [][ ( /\ op'.name = "submitAnswer" /\ registered
          /\ SocketToJoueur(op'.socket) # NullStr
          /\ HasCurrentQuestion(state)
          /\ \/ op'.questionUid # state.currentQuestionUid
             \/ state.questionStart = Null )
        => ( /\ Len(out') = 1
             /\ out'[1].ev = "tournament_answer_result"
             /\ out'[1].to = op'.socket
             /\ out'[1].rejected ) ]_vars

----
\* C26: a submitAnswer that is not accepted (session not in the registry,
\* unresolved player, no current question, answer for another question,
\* questionStart unset, session stopped, or answer late on a session that is
\* not paused) leaves the answers and every participant's scoredQuestions
\* and score unchanged.
C26_RejectedAnswerRecordsNothing ==
    [][ ( /\ op'.name = "submitAnswer"
          /\ \/ ~registered
             \/ SocketToJoueur(op'.socket) = NullStr
             \/ ~HasCurrentQuestion(state)
             \/ op'.questionUid # state.currentQuestionUid
             \/ state.questionStart = Null
             \/ state.stopped
             \/ /\ ~state.paused
                /\ LET allowed == TimeAllowed(state, CurrentQuestion(state))
                   IN \/ now - state.questionStart > allowed + 500
                      \/ op'.clientTimestamp - state.questionStart > allowed )
        => NothingRecorded ]_vars

\* A player whose first answer was recorded and scored answered again after
\* the window: the late answer was refused and the first one is still there.
C26_Witness ==
    /\ op.name = "submitAnswer" /\ op.socket = "s1"
    /\ out = << Receipt("s1", TRUE, "late") >>
    /\ Has(state.answers, "j1") /\ Has(state.answers["j1"], "q1")
    /\ state.answers["j1"]["q1"].clientTimestamp < now
    /\ state.participants["j1"].score > 0

\* An answer from a socket that maps to no player was dropped on a session
\* whose question is running.
C26_WitnessUnresolved ==
    /\ op.name = "submitAnswer" /\ op.socket = "sX"
    /\ out = << >>
    /\ state.questionStart # Null /\ ~state.paused /\ ~state.stopped
    /\ timers # {}

----
\* C27: on a deferred session, setTimer and pause, whatever their arguments,
\* leave the session unchanged, arm and cancel no timer, and broadcast
\* nothing.
C27_DeferredIgnoresTimerControl ==
    [][ ( /\ op'.name \in {"setTimer", "pause"}
          /\ registered /\ state.isDiffered )
        => ( /\ state' = state
             /\ timers' = timers
             /\ out' = << >>
             /\ sent' = sent ) ]_vars

\* A pause with a remaining-time override was just ignored by a deferred
\* session that has a current question and is neither paused nor stopped.
C27_Witness ==
    /\ op.name = "pause" /\ op.remainingTime = 1500
    /\ registered /\ state.isDiffered
    /\ state.currentQuestionUid = "q2"
    /\ ~state.paused /\ ~state.stopped
    /\ state.pausedRemainingTime = Null
    /\ out = << >>

----
\* Invocation i of forceTournamentEnd has applied its first session
\* mutations (timer, askedQuestions, scaled scores) and is suspended at an
\* await, before its last one (the removal of the session).
Suspended(i) == fe[i].pc \in {"awaitUpdate", "awaitFind", "awaitSave"}

\* C28: every operation applies all of its session mutations before any other
\* event for the session is processed: while an operation is between two of
\* its mutations, the only step taken on the session is that operation's own
\* continuation.
C28_OperationsAtomic ==
    [][ ( registered /\ \E i \in 1..MaxForceEnd : Suspended(i) )
        => ( /\ op'.name \in {"forceEnd.update", "forceEnd.find", "forceEnd.save"}
             /\ Suspended(op'.i) ) ]_vars

----
\* C29: in every reachable state of a session that is not deferred, at most
\* one tick timer and at most one deadline timer are armed.
C29_AtMostOneTimerOfEachKind ==
    ~state.isDiffered
    => ( /\ Cardinality(Armed(timers, "interval")) <= 1
         /\ Cardinality(Armed(timers, "timeout")) <= 1 )

\* A countdown was started again over a running one whose tick had already
\* fired once: exactly one tick timer and one deadline timer are armed, both
\* counted from the second start.
C29_Witness ==
    /\ op.name = "setTimer" /\ op.forceActive /\ op.timeLeft = 2000
    /\ ~state.isDiffered
    /\ now > T0 /\ state.questionStart = now
    /\ state.pausedRemainingTime = Null
    /\ out = << SetTimerEvent(2000, "active") >>
    /\ Cardinality(Armed(timers, "interval")) = 1
    /\ Cardinality(Armed(timers, "timeout")) = 1
    /\ \A t \in timers : t.due > now

----
\* C30: no setTimer call leaves a session that is active (neither paused nor
\* stopped) with a started current question without a deadline timer armed;
\* without an armed timer the expiration handling can never be invoked.
C30_SetTimerKeepsActiveSessionArmed ==
    [][ ( /\ op'.name = "setTimer" /\ Live
          /\ HasCurrentQuestion(state')
          /\ state'.questionStart # Null
          /\ ~state'.paused /\ ~state'.stopped )
        => ( /\ \E t \in timers' : t.kind = "timeout" /\ t.id = state'.timer
             /\ \E t \in timers' : t.kind = "interval" /\ t.id = state'.intervalTimer ) ]_vars

----
\* The setTimer call of this step started a countdown: it announced the
\* active timer and armed the deadline.
EnteredActive ==
    /\ op'.name = "setTimer" /\ Live
    /\ out' # << >>
    /\ out'[1].ev = "tournament_set_timer" /\ out'[1].questionState = "active"
    /\ \E t \in timers' : t.kind = "timeout" /\ t.id = state'.timer

\* The question payloads among the events of this step.
QuestionPayloads == {k \in 1..Len(out') : out'[k].ev = "tournament_question"}

\* C31: on each entry into Active through setTimer the question payload is
\* broadcast to the session channel if and only if currentQuestionUid differs
\* from previousQuestionUid (none at first), it is the payload of the current
\* question, and after the call previousQuestionUid equals currentQuestionUid.
C31_QuestionBroadcastOnChange ==
    [][ EnteredActive
        => ( /\ (QuestionPayloads # {})
                    <=> (state.previousQuestionUid # state.currentQuestionUid)
             /\ Cardinality(QuestionPayloads) <= 1
             /\ \A k \in QuestionPayloads :
                    /\ out'[k].ch = "live"
                    /\ out'[k].uid = state.currentQuestionUid
             /\ state'.currentQuestionUid = state.currentQuestionUid
             /\ state'.previousQuestionUid = state'.currentQuestionUid ) ]_vars

\* Question q2, whose payload went out at its first start, was resumed by
\* force from a pause: the timer start went out without the payload.
C31_Witness ==
    /\ op.name = "setTimer" /\ op.forceActive
    /\ Live /\ ~state.paused /\ ~state.stopped
    /\ state.currentQuestionUid = "q2" /\ state.previousQuestionUid = "q2"
    /\ state.pausedRemainingTime # Null
    /\ state.questionStart = now
    /\ Len(out) >= 1 /\ out[1].ev = "tournament_set_timer"
    /\ \A k \in 1..Len(out) : out[k].ev # "tournament_question"
    /\ Cardinality(timers) = 2

\* Question q2 was started for the first time after q1 had run: its payload
\* went out with the timer start.
C31_WitnessChanged ==
    /\ op.name = "setTimer"
    /\ Live /\ ~state.paused /\ ~state.stopped
    /\ state.currentQuestionUid = "q2" /\ state.previousQuestionUid = "q2"
    /\ \E k \in 1..Len(out) : out[k].ev = "tournament_question" /\ out[k].uid = "q2"
    /\ now > T0
    /\ Cardinality(timers) = 2

----
\* The pause of this step is effective: the session is live and was neither
\* paused nor stopped.
EffectivePause ==
    /\ op'.name = "pause" /\ Live
    /\ ~state.paused /\ ~state.stopped

\* The remaining time an effective pause has to store, before rounding: the
\* override when one is supplied and positive, else the duration minus the
\* time elapsed since questionStart, floored at zero (a field not yet set
\* counts as zero).
ExpectedRemaining ==
    IF op'.remainingTime # Null /\ op'.remainingTime > 0
    THEN op'.remainingTime
    ELSE LET d == ToNumber(state.currentQuestionDuration)
                     - (now - ToNumber(state.questionStart))
         IN IF d > 0 THEN d ELSE 0

\* v is x rounded to one decimal of a second: a whole number of tenths at
\* most half a tenth away from x.
RoundedToTenth(v, x) ==
    /\ v % 100 = 0
    /\ v - x <= 50 /\ x - v <= 50

\* C32 as stated: an effective pause stores the override when one is supplied
\* and positive, else max(0, currentQuestionDuration - elapsed), rounded to
\* one decimal; the stored value is never negative and, when no override is
\* given, never exceeds currentQuestionDuration.
C32_PausedRemainingWithinDuration ==
    [][ EffectivePause
        => ( /\ RoundedToTenth(state'.pausedRemainingTime, ExpectedRemaining)
             /\ state'.pausedRemainingTime >= 0
             /\ ~(op'.remainingTime # Null /\ op'.remainingTime > 0)
                    => state'.pausedRemainingTime
                           <= ToNumber(state.currentQuestionDuration) ) ]_vars

\* C32 amended: an effective pause stores the override when one is supplied
\* and positive, else max(0, currentQuestionDuration - elapsed), rounded to
\* one decimal; the stored value is never negative and, when no override is
\* given, never exceeds currentQuestionDuration rounded to one decimal, that
\* is, it exceeds currentQuestionDuration by at most 0.05 s.
C32_PausedRemainingWithinRoundedDuration ==
    [][ EffectivePause
        => ( /\ RoundedToTenth(state'.pausedRemainingTime, ExpectedRemaining)
             /\ state'.pausedRemainingTime >= 0
             /\ ~(op'.remainingTime # Null /\ op'.remainingTime > 0)
                    => state'.pausedRemainingTime
                           <= ToNumber(state.currentQuestionDuration) + 50 ) ]_vars

\* A countdown of 0.56 s was paused at once, with no override: the 0.56 s
\* that remain are stored as 0.6 s.
C32_Witness ==
    /\ op.name = "pause" /\ op.remainingTime = Null
    /\ Live /\ state.paused
    /\ state.currentQuestionDuration = 560
    /\ state.pausedAt = state.questionStart
    /\ state.pausedAt = now
    /\ state.pausedRemainingTime = 600

\* A countdown of 0.56 s that had expired was paused, with no override: the
\* stored remaining time is floored at zero.
C32_WitnessFloor ==
    /\ op.name = "pause" /\ op.remainingTime = Null
    /\ Live /\ state.paused
    /\ state.currentQuestionDuration = 560
    /\ state.pausedAt > state.questionStart + 560
    /\ state.pausedRemainingTime = 0

----
\* C33: while a session is paused or stopped, neither the tick timer nor the
\* deadline timer is armed, and no step taken in that state invokes the
\* expiration handling.
C33_NoTimerWhilePausedOrStopped ==
    [][ /\ (state'.paused \/ state'.stopped) => timers' = {}
        /\ (state.paused \/ state.stopped)
               => /\ \A k \in 1..Len(out') : out'[k] # ExpirationEvent
                  /\ expirations' <= expirations ]_vars

\* A countdown that was running with both timers armed was just paused with
\* time remaining: no timer is armed any more.
C33_Witness ==
    /\ op.name = "pause"
    /\ Live /\ state.paused
    /\ state.questionStart # Null /\ now > state.questionStart
    /\ state.pausedRemainingTime # Null /\ state.pausedRemainingTime > 0
    /\ expirations = 0
    /\ timers = {}

----
\* C34: an answer is never accepted for a question whose own countdown has
\* not been started: when the current question is not the one for which the
\* last countdown was started (previousQuestionUid), a submitAnswer for the
\* current question records nothing and gets no acceptance receipt.
C34_NoAnswerBeforeOwnCountdown ==
    [][ ( /\ Submitted
          /\ state.currentQuestionUid # state.previousQuestionUid )
        => ( /\ NothingRecorded
             /\ \A k \in 1..Len(out') : out'[k] # Receipt(op'.socket, FALSE, "") ) ]_vars

----
\* C35: the score record persisted for a participant by a forceTournamentEnd
\* equals that participant's score in the scaled leaderboard persisted by the
\* same invocation, whatever answers are processed while it awaits.  (Stated
\* for an invocation that is the only one on the session.)
C35_SavedScoreMatchesLeaderboard ==
    [][ ( /\ op'.name = "forceEnd.save" /\ op'.ok
          /\ \A h \in DOMAIN fe : h # op'.i => fe[h].pc = "idle" )
        => LET j == ParticipantOrder[fe[op'.i].k]
           IN /\ db.leaderboard = fe[op'.i].scaled
              /\ \E n \in DOMAIN db.leaderboard :
                    /\ db.leaderboard[n].id = j
                    /\ db'.scores[j] = db.leaderboard[n].score ]_vars

----
\* C36: when the session is paused, the countdown that was last started is
\* that of another question (previousQuestionUid) and setQuestion has selected
\* the current one, a forced setTimer(timeLeft > 0) runs the current question
\* for timeLeft, not for the remaining time of the paused countdown.
C36_NewQuestionDoesNotInheritPause ==
    [][ ( /\ op'.name = "setTimer" /\ op'.forceActive
          /\ op'.timeLeft # Null /\ op'.timeLeft > 0
          /\ Live /\ state.paused
          /\ HasCurrentQuestion(state)
          /\ state.previousQuestionUid # NullStr
          /\ state.currentQuestionUid # state.previousQuestionUid )
        => ( /\ state'.currentQuestionDuration = op'.timeLeft
             /\ \E t \in timers' : /\ t.kind = "timeout"
                                   /\ t.due = now + op'.timeLeft ) ]_vars

----
\* C37: whenever a tick or deadline timer invokes the expiration handling,
\* the session's current question is the one the countdown was started for
\* (previousQuestionUid, set at the start of the countdown).
C37_ExpiresAgainstOwnQuestion ==
    [][ ( /\ op'.name \in {"tick", "deadline"}
          /\ \E k \in 1..Len(out') : out'[k] = ExpirationEvent )
        => state'.currentQuestionUid = state'.previousQuestionUid ]_vars

====
